---- MODULE Spec2Model ----
(***************************************************************************)
(* A model of the TERA file-sync engine of src/src/index.ts                *)
(* (TeraFileSyncPlugin, its Vuex adapter, the codec mapSetToObject /       *)
(* objectToMapSet) and of the remote client of helpers/api.ts              *)
(* (src/unnamed/part_000).                                                 *)
(*                                                                         *)
(* Every asynchronous engine operation is a task; a task's pc names the    *)
(* await it is suspended at.  One action runs the synchronous code between *)
(* two awaits, which is atomic in the single-threaded event loop.          *)
(***************************************************************************)
EXTENDS Integers, Sequences, FiniteSets, TLC

(***************************************************************************)
(* Bounds of the model.                                                    *)
(***************************************************************************)
\* asynchronous operations started in one behaviour
MaxOps == 2
\* asynchronous operations started while the key is not mapped to a file
MaxProvisionOps == 1
\* asynchronous operations started while the store holds values of every codec shape
MaxCodecOps == 1

(***************************************************************************)
(* Program constants.                                                      *)
(***************************************************************************)
\* pRetry({retries: 3}) around the remote write of a save
SaveRetries == 3
\* pRetry({retries: 3}) around the remote read of a load
LoadRetries == 3
\* pRetry({retries: 2}) around each provisioning sub-step
ProvisionRetries == 2
\* retries of a read of the file the user selected
PromptRetries == 3
\* DEFAULT_CONFIG.autoSaveIntervalMinutes
DefaultAutoSaveMinutes == 15

(***************************************************************************)
(* JavaScript values.  Every value is a tuple whose first element is its   *)
(* tag, so that two values of different kinds differ at the tag.           *)
(***************************************************************************)
Num(n) == <<"num", n>>
Str(s) == <<"str", s>>
Bool(b) == <<"bool", b>>
Null == <<"null">>
Arr(s) == <<"arr", s>>
\* a plain object: a function from its own keys to values
Obj(f) == <<"obj", f>>
\* a Map: a function from key values to values
MapV(f) == <<"map", f>>
\* a Set: the sequence of its members, in insertion order
SetV(s) == <<"set", s>>
\* a Date, by its ISO string
DateV(s) == <<"date", s>>
\* the outcome of a conversion that throws
Throw == <<"throw">>

Tag(v) == v[1]
NoProps == [k \in {} |-> Null]
Put(f, k, v) == [x \in (DOMAIN f) \cup {k} |-> IF x = k THEN v ELSE f[x]]

\* String(key): the property name a Map key is coerced to by obj[key] = ...
KeyString(k) ==
  CASE Tag(k) = "str" -> k[2]
    [] Tag(k) = "num" -> (CASE k[2] = 0 -> "0" [] k[2] = 1 -> "1" [] k[2] = 2 -> "2" [] OTHER -> "n")
    [] Tag(k) = "bool" -> (IF k[2] THEN "true" ELSE "false")
    [] OTHER -> "null"

RECURSIVE mapSetToObject(_)
RECURSIVE EncodeEntries(_, _, _)
\* item.forEach((value, key) => { obj[key] = mapSetToObject(value) })
EncodeEntries(m, keys, obj) ==
  IF keys = {} THEN obj
  ELSE LET k == CHOOSE x \in keys : TRUE
       IN EncodeEntries(m, keys \ {k}, Put(obj, KeyString(k), mapSetToObject(m[k])))

mapSetToObject(item) ==
  CASE Tag(item) = "map" ->
         Obj(EncodeEntries(item[2], DOMAIN item[2], Put(NoProps, "__isMap", Bool(TRUE))))
    [] Tag(item) = "set" ->
         Obj(Put(Put(NoProps, "__isSet", Bool(TRUE)), "values",
                 Arr([i \in DOMAIN item[2] |-> mapSetToObject(item[2][i])])))
    [] Tag(item) = "arr" -> Arr([i \in DOMAIN item[2] |-> mapSetToObject(item[2][i])])
    [] Tag(item) = "obj" -> Obj([k \in DOMAIN item[2] |-> mapSetToObject(item[2][k])])
    [] OTHER -> item

\* the members of a decoded Set: new Set(array) keeps the first of equal primitives
IsPrimitive(v) == Tag(v) \in {"num", "str", "bool", "null"}
RECURSIVE Dedup(_, _)
Dedup(s, acc) ==
  IF s = <<>> THEN acc
  ELSE IF IsPrimitive(Head(s)) /\ \E i \in DOMAIN acc : acc[i] = Head(s)
       THEN Dedup(Tail(s), acc)
       ELSE Dedup(Tail(s), Append(acc, Head(s)))

\* falsy values: !obj
Falsy(v) ==
  \/ Tag(v) = "null"
  \/ v = Num(0)
  \/ v = Str("")
  \/ v = Bool(FALSE)

RECURSIVE objectToMapSet(_)
objectToMapSet(obj) ==
  IF Tag(obj) = "arr"
  THEN LET d == [i \in DOMAIN obj[2] |-> objectToMapSet(obj[2][i])]
       IN IF \E i \in DOMAIN d : d[i] = Throw THEN Throw ELSE Arr(d)
  ELSE IF Tag(obj) # "obj"
  \* !obj || typeof obj !== 'object'
  THEN obj
  ELSE IF "__isMap" \in DOMAIN obj[2]
  THEN LET ks == (DOMAIN obj[2]) \ {"__isMap"}
           d == [k \in ks |-> objectToMapSet(obj[2][k])]
       IN IF \E k \in ks : d[k] = Throw THEN Throw
          ELSE MapV([k \in {Str(x) : x \in ks} |-> d[k[2]]])
  ELSE IF "__isSet" \in DOMAIN obj[2]
  THEN IF "values" \in DOMAIN obj[2] /\ Tag(obj[2]["values"]) = "arr"
       THEN LET vs == obj[2]["values"][2]
                d == [i \in DOMAIN vs |-> objectToMapSet(vs[i])]
            IN IF \E i \in DOMAIN d : d[i] = Throw THEN Throw
               ELSE SetV(Dedup(d, <<>>))
       \* obj.values.map is not a function
       ELSE Throw
  ELSE LET d == [k \in DOMAIN obj[2] |-> objectToMapSet(obj[2][k])]
       IN IF \E k \in DOMAIN d : d[k] = Throw THEN Throw ELSE Obj(d)

\* JSON.parse(JSON.stringify(v)): a Map or Set that was not encoded is written
\* as the empty object
RECURSIVE JsonRoundTrip(_)
JsonRoundTrip(v) ==
  CASE Tag(v) \in {"map", "set"} -> Obj(NoProps)
    [] Tag(v) = "date" -> Str(v[2])
    [] Tag(v) = "arr" -> Arr([i \in DOMAIN v[2] |-> JsonRoundTrip(v[2][i])])
    [] Tag(v) = "obj" -> Obj([k \in DOMAIN v[2] |-> JsonRoundTrip(v[2][k])])
    [] OTHER -> v

(***************************************************************************)
(* The state.                                                              *)
(***************************************************************************)
VARIABLES
  cfg,              \* the merged configuration (autoSaveIntervalMinutes, loadImmediately)
  vueInstance,      \* whether setVueInstance has supplied the host instance
  teraReady,
  saveInProgress,
  saveStatus,       \* _saveStatus
  autoSaveInterval, \* the handle kept in this.autoSaveInterval (0: null)
  hotkeys,          \* whether the keydown listener is registered
  store,            \* the container state, without the bookkeeping module
  mirror,           \* __tera_file_sync.saveStatus ("none": module not registered)
  unsubscribe,      \* the subscription adapter.unsubscribe ends (0: the initial no-op)
  subs,             \* the subscriptions the store still delivers mutations to
  timers,           \* the interval timers that are still running
  temp,             \* $tera.project.temp[key]: the file name the key maps to
  files,            \* the remote files: name -> content
  tasks,            \* the asynchronous operations in flight, by slot
  nOps,             \* asynchronous operations started so far
  env,              \* the environment: the calls that may reject, the operations the host starts
  progress,         \* whether the host shows its progress indicator
  ev                \* what the last step did: the call that returned, its result, the notice shown

vars == <<cfg, vueInstance, teraReady, saveInProgress, saveStatus,
          autoSaveInterval, hotkeys, store, mirror, unsubscribe, subs, timers,
          temp, files, tasks, nOps, env, progress, ev>>

SAVED == "Saved"
UNSAVED == "Unsaved changes"
SAVING == "Saving..."

NoticeSaveFailed == "Failed to save state to file, hit F12 for debug information."
NoticeLoadFailed == "Failed to load state from file, using default state"
NoticeLoadApplyFailed == "Error loading state from file."
NoticeInitFailed == "Error initializing state from file"
NoticeSelectedEmpty == "The selected file is empty."
NoticePromptFailed == "Failed to load data from the selected file."

Slots == 1..MaxOps
NoFile == 0
\* the file a previous session mapped the key to
OldFile == 1
\* another file of the project, which the user can select
PickFile == 2
\* data-<prefix>-<nanoid()>.json: a name no other provisioning run generates
NewName(slot, attempt) == 10 * slot + attempt
\* a response body of zero bytes
EmptyBody == <<"emptybody">>

\* container states of the host application
State0 == Obj(NoProps)
State2 == Obj(Put(NoProps, "a", MapV(Put(NoProps, Str("x"), Num(1)))))
StoreValues == {State0, State2}

\* what the mapped file of a previous session may hold
MalformedDoc == Obj(Put(NoProps, "a", Obj(Put(NoProps, "__isSet", Bool(TRUE)))))
OldContents == {EmptyBody, Null, mapSetToObject(State2), MalformedDoc}

\* what onBeforeSave may return
HookResults == {Bool(TRUE), Bool(FALSE), Str(""), Str("Validation failed")}

Idle == [kind |-> "none", pc |-> "idle", attempt |-> 0, sub |-> 0,
         name |-> NoFile, snap |-> Null, at |-> NoFile, body |-> Null, ret |-> "none",
         why |-> ""]

Event(op, ret, note, why, hook) ==
  [op |-> op, ret |-> ret, note |-> note, why |-> why, hook |-> hook]
\* a step that returns nothing to the host and shows no notice
Quiet == Event("step", "none", "", "", Null)

NoFiles == [n \in {} |-> Null]
ValidDoc == mapSetToObject(State2)
InitialFiles == {NoFiles} \cup {[n \in {OldFile} |-> c] : c \in OldContents}

\* a merged configuration and the store it is used with: the adapter that was
\* selected, whether the store's change notices carry mutation.events (Pinia
\* fills it in development builds only) and whether the host's own store
\* calls its subscribers from replaceState and updateSaveStatus
StoreConfig(interval, loadImmediately, adapter, events, notifies) ==
  [interval |-> interval, loadImmediately |-> loadImmediately, adapter |-> adapter,
   events |-> events, notifies |-> notifies]
VuexConfig(interval, loadImmediately) ==
  StoreConfig(interval, loadImmediately, "vuex", TRUE, FALSE)
\* before createTeraSync has returned an engine
NoEngine == StoreConfig(0, FALSE, "none", FALSE, FALSE)

\* the configurations of createTeraSync that are explored
Configs == {VuexConfig(DefaultAutoSaveMinutes, TRUE),
            VuexConfig(0, TRUE),
            VuexConfig(DefaultAutoSaveMinutes, FALSE)}

\* the environments that are explored: a reliable host with a mapped file of any
\* content, a mapped file with unreliable calls, and a key that is not mapped yet
Scenarios ==
  [cfg : Configs, temp : {OldFile}, files : InitialFiles, faulty : {{}}, ops : {MaxOps}]
  \cup [cfg : Configs, temp : {OldFile}, files : {[n \in {OldFile} |-> ValidDoc]},
        faulty : {{"uiProgress"}, {"saveFileContent"}, {"getFileContent"},
                  {"saveFileContent", "uiProgress"}},
        ops : {MaxOps}]
  \cup [cfg : {VuexConfig(DefaultAutoSaveMinutes, TRUE)},
        temp : {NoFile}, files : {NoFiles},
        faulty : {{}, {"createProjectFile"}, {"setContents"}, {"setProjectState"}},
        ops : {MaxProvisionOps}]

Init ==
  /\ \E s \in Scenarios :
       /\ cfg = s.cfg
       /\ temp = s.temp
       /\ files = s.files
       /\ env = [faulty |-> s.faulty, ops |-> s.ops]
  /\ vueInstance = FALSE
  /\ teraReady = FALSE
  /\ saveInProgress = FALSE
  /\ saveStatus = SAVED
  /\ autoSaveInterval = 0
  /\ hotkeys = FALSE
  /\ store = State0
  /\ mirror = SAVED
  /\ unsubscribe = 0
  /\ subs = {}
  /\ timers = {}
  /\ tasks = [t \in Slots |-> Idle]
  /\ nOps = 0
  /\ progress = FALSE
  /\ ev = Quiet

\* a reliable host and a key that no session has mapped yet
ProvisionScenarios ==
  [cfg : {VuexConfig(DefaultAutoSaveMinutes, TRUE)},
   temp : {NoFile}, files : {NoFiles}, faulty : {{}}, ops : {MaxOps}]

InitProvision ==
  /\ \E s \in ProvisionScenarios :
       /\ cfg = s.cfg
       /\ temp = s.temp
       /\ files = s.files
       /\ env = [faulty |-> s.faulty, ops |-> s.ops]
  /\ vueInstance = FALSE
  /\ teraReady = FALSE
  /\ saveInProgress = FALSE
  /\ saveStatus = SAVED
  /\ autoSaveInterval = 0
  /\ hotkeys = FALSE
  /\ store = State0
  /\ mirror = SAVED
  /\ unsubscribe = 0
  /\ subs = {}
  /\ timers = {}
  /\ tasks = [t \in Slots |-> Idle]
  /\ nOps = 0
  /\ progress = FALSE
  /\ ev = Quiet

\* what the file the user can select may hold
PickContents == {ValidDoc, Null, MalformedDoc}

\* a mapped key and a second project file, on a host whose file picker, file
\* read or project-state write may reject
PromptScenarios ==
  [cfg : {VuexConfig(DefaultAutoSaveMinutes, TRUE)},
   temp : {OldFile},
   files : {[n \in {OldFile, PickFile} |-> IF n = OldFile THEN ValidDoc ELSE c] :
              c \in PickContents},
   faulty : {{}, {"selectProjectFile"}, {"getContents"}, {"setProjectState"}},
   ops : {MaxOps}]

InitPrompt ==
  /\ \E s \in PromptScenarios :
       /\ cfg = s.cfg
       /\ temp = s.temp
       /\ files = s.files
       /\ env = [faulty |-> s.faulty, ops |-> s.ops]
  /\ vueInstance = FALSE
  /\ teraReady = FALSE
  /\ saveInProgress = FALSE
  /\ saveStatus = SAVED
  /\ autoSaveInterval = 0
  /\ hotkeys = FALSE
  /\ store = State0
  /\ mirror = SAVED
  /\ unsubscribe = 0
  /\ subs = {}
  /\ timers = {}
  /\ tasks = [t \in Slots |-> Idle]
  /\ nOps = 0
  /\ progress = FALSE
  /\ ev = Quiet

\* values of every shape the codec handles: primitives and Dates, Maps with
\* string keys, a number key and a key that equals a tag marker, Sets, arrays and
\* plain objects, and the same one level deeper
CodecAtoms == {Num(1), Str("x"), DateV("2020-01-01T00:00:00.000Z")}
CodecMapKeys == {Str("k"), Num(1), Str("__isMap")}
CodecFlat ==
  CodecAtoms
  \cup {MapV([k \in K |-> a]) : K \in SUBSET CodecMapKeys, a \in CodecAtoms}
  \cup {SetV(<<a>>) : a \in CodecAtoms}
  \cup {Arr(<<a>>) : a \in CodecAtoms}
  \cup {Obj(Put(NoProps, "b", a)) : a \in CodecAtoms}
CodecValues ==
  CodecFlat
  \cup {Arr(<<v>>) : v \in CodecFlat}
  \cup {MapV(Put(NoProps, Str("k"), v)) : v \in CodecFlat}
  \cup {SetV(<<v>>) : v \in CodecFlat}
\* the container states that hold one such value
CodecStates == {Obj(Put(NoProps, "a", v)) : v \in CodecValues}

\* a reliable host with a mapped file, and a container of any codec shape
CodecScenarios ==
  [cfg : {VuexConfig(DefaultAutoSaveMinutes, TRUE)},
   temp : {OldFile}, files : {[n \in {OldFile} |-> ValidDoc]}, faulty : {{}},
   ops : {MaxCodecOps}]

InitCodec ==
  /\ \E s \in CodecScenarios :
       /\ cfg = s.cfg
       /\ temp = s.temp
       /\ files = s.files
       /\ env = [faulty |-> s.faulty, ops |-> s.ops]
  /\ vueInstance = FALSE
  /\ teraReady = FALSE
  /\ saveInProgress = FALSE
  /\ saveStatus = SAVED
  /\ autoSaveInterval = 0
  /\ hotkeys = FALSE
  /\ store \in CodecStates
  /\ mirror = SAVED
  /\ unsubscribe = 0
  /\ subs = {}
  /\ timers = {}
  /\ tasks = [t \in Slots |-> Idle]
  /\ nOps = 0
  /\ progress = FALSE
  /\ ev = Quiet

\* the stores createTeraSync accepts: a Vuex store, a Pinia store whose notices
\* carry events or not, and a host's own store that sends notices or not
AdapterConfigs ==
  {StoreConfig(DefaultAutoSaveMinutes, TRUE, "vuex", TRUE, FALSE),
   StoreConfig(DefaultAutoSaveMinutes, TRUE, "pinia", TRUE, FALSE),
   StoreConfig(DefaultAutoSaveMinutes, TRUE, "pinia", FALSE, FALSE),
   StoreConfig(DefaultAutoSaveMinutes, TRUE, "plain", TRUE, FALSE),
   StoreConfig(DefaultAutoSaveMinutes, TRUE, "plain", TRUE, TRUE)}

\* a file that was not written by this engine and has the bookkeeping keys of
\* both adapters in it
ForeignDoc ==
  Obj(Put(Put(Put(NoProps, "a", Num(1)),
              "__tera_file_sync", Obj(Put(NoProps, "saveStatus", Str("Saving...")))),
          "saveStatus", Str("Saving...")))

\* every kind of store on a reliable host: with a mapped file and a second file
\* of foreign content, or with a key that is not mapped yet
AdapterScenarios ==
  [cfg : AdapterConfigs, temp : {OldFile},
   files : {[n \in {OldFile, PickFile} |-> IF n = OldFile THEN ValidDoc ELSE ForeignDoc]},
   faulty : {{}}, ops : {MaxOps}]
  \cup [cfg : AdapterConfigs, temp : {NoFile}, files : {NoFiles}, faulty : {{}},
        ops : {MaxProvisionOps}]

InitAdapters ==
  /\ \E s \in AdapterScenarios :
       /\ cfg = s.cfg
       /\ temp = s.temp
       /\ files = s.files
       /\ env = [faulty |-> s.faulty, ops |-> s.ops]
  /\ vueInstance = FALSE
  /\ teraReady = FALSE
  /\ saveInProgress = FALSE
  /\ saveStatus = SAVED
  /\ autoSaveInterval = 0
  /\ hotkeys = FALSE
  /\ store = State0
  /\ mirror = SAVED
  /\ unsubscribe = 0
  /\ subs = {}
  /\ timers = {}
  /\ tasks = [t \in Slots |-> Idle]
  /\ nOps = 0
  /\ progress = FALSE
  /\ ev = Quiet

\* what createTeraSync finds on a supplied store: the four functions of the
\* host's own store, $id as a string with $patch, commit with subscribe
PlainShape == {"getState", "replaceState", "updateSaveStatus", "subscribe"}
PiniaShape == {"$id", "$patch"}
VuexShape == {"commit", "subscribe"}
StoreShapes ==
  {{}, {"commit"}, {"getState", "replaceState", "subscribe"},
   PlainShape, PiniaShape, VuexShape,
   PiniaShape \cup VuexShape, PlainShape \cup PiniaShape, PlainShape \cup {"commit"}}

\* the fields of the configuration that the engine's behaviour depends on
DEFAULT_CONFIG ==
  [autoSaveIntervalMinutes |-> Num(DefaultAutoSaveMinutes), loadImmediately |-> Bool(TRUE)]
\* the configurations handed to createTeraSync: a field may be left out
GivenConfigs ==
  {NoProps,
   [k \in {"autoSaveIntervalMinutes"} |-> Num(0)],
   [k \in {"autoSaveIntervalMinutes"} |-> Num(0 - 1)],
   [k \in {"autoSaveIntervalMinutes"} |-> Str("15")],
   [k \in {"loadImmediately"} |-> Bool(FALSE)],
   [k \in {"loadImmediately"} |-> Null]}

\* a store and a configuration handed to createTeraSync; the store may carry the
\* bookkeeping namespace from an earlier setup
InitConstruct ==
  /\ \E s \in
       (
         [shape : StoreShapes, given : GivenConfigs, mirror : {"none", SAVED, SAVING}]
       ) :
       /\ env = [faulty |-> {}, ops |-> MaxProvisionOps, shape |-> s.shape,
                 given |-> s.given, events |-> TRUE, notifies |-> FALSE]
       /\ mirror = s.mirror
  /\ cfg = NoEngine
  /\ temp = OldFile
  /\ files = [n \in {OldFile} |-> ValidDoc]
  /\ vueInstance = FALSE
  /\ teraReady = FALSE
  /\ saveInProgress = FALSE
  /\ saveStatus = SAVED
  /\ autoSaveInterval = 0
  /\ hotkeys = FALSE
  /\ store = State0
  /\ unsubscribe = 0
  /\ subs = {}
  /\ timers = {}
  /\ tasks = [t \in Slots |-> Idle]
  /\ nOps = 0
  /\ progress = FALSE
  /\ ev = Quiet

\* projects on which the metadata of the storage file is asked for: the key
\* maps to a file that exists or was removed, or to no file yet
InitMetadata ==
  /\ \E s \in
       (
         [cfg : {VuexConfig(DefaultAutoSaveMinutes, TRUE)}, temp : {OldFile},
          files : {NoFiles, [n \in {OldFile} |-> ValidDoc]},
          faulty : {{}, {"getProjectFile"}}, ops : {MaxOps}]
         \cup [cfg : {VuexConfig(DefaultAutoSaveMinutes, TRUE)}, temp : {NoFile},
               files : {NoFiles},
               faulty : {{}, {"createProjectFile"}, {"setContents"}, {"setProjectState"}},
               ops : {MaxOps}]
       ) :
       /\ cfg = s.cfg
       /\ temp = s.temp
       /\ files = s.files
       /\ env = [faulty |-> s.faulty, ops |-> s.ops]
  /\ vueInstance = FALSE
  /\ teraReady = FALSE
  /\ saveInProgress = FALSE
  /\ saveStatus = SAVED
  /\ autoSaveInterval = 0
  /\ hotkeys = FALSE
  /\ store = State0
  /\ mirror = SAVED
  /\ unsubscribe = 0
  /\ subs = {}
  /\ timers = {}
  /\ tasks = [t \in Slots |-> Idle]
  /\ nOps = 0
  /\ progress = FALSE
  /\ ev = Quiet

\* every kind of store with autosave on, on a reliable host with a mapped file
InitAutoSave ==
  /\ \E s \in
       (
         [cfg : AdapterConfigs, temp : {OldFile}, files : {[n \in {OldFile} |-> ValidDoc]},
          faulty : {{}}, ops : {MaxOps}]
       ) :
       /\ cfg = s.cfg
       /\ temp = s.temp
       /\ files = s.files
       /\ env = [faulty |-> s.faulty, ops |-> s.ops]
  /\ vueInstance = FALSE
  /\ teraReady = FALSE
  /\ saveInProgress = FALSE
  /\ saveStatus = SAVED
  /\ autoSaveInterval = 0
  /\ hotkeys = FALSE
  /\ store = State0
  /\ mirror = SAVED
  /\ unsubscribe = 0
  /\ subs = {}
  /\ timers = {}
  /\ tasks = [t \in Slots |-> Idle]
  /\ nOps = 0
  /\ progress = FALSE
  /\ ev = Quiet

\* hosts whose calls may reject: a mapped file that holds a document or nothing,
\* and a key that is not mapped yet
InitRetry ==
  /\ \E s \in
       (
         [cfg : {VuexConfig(DefaultAutoSaveMinutes, TRUE)}, temp : {OldFile},
          files : {[n \in {OldFile} |-> c] : c \in {ValidDoc, EmptyBody}},
          faulty : {{"uiProgress"}, {"saveFileContent", "getFileContent"}}, ops : {MaxOps}]
         \cup [cfg : {VuexConfig(DefaultAutoSaveMinutes, TRUE)}, temp : {NoFile},
               files : {NoFiles},
               faulty : {{"createProjectFile"}, {"setContents"}, {"setProjectState"}},
               ops : {MaxProvisionOps}]
       ) :
       /\ cfg = s.cfg
       /\ temp = s.temp
       /\ files = s.files
       /\ env = [faulty |-> s.faulty, ops |-> s.ops]
  /\ vueInstance = FALSE
  /\ teraReady = FALSE
  /\ saveInProgress = FALSE
  /\ saveStatus = SAVED
  /\ autoSaveInterval = 0
  /\ hotkeys = FALSE
  /\ store = State0
  /\ mirror = SAVED
  /\ unsubscribe = 0
  /\ subs = {}
  /\ timers = {}
  /\ tasks = [t \in Slots |-> Idle]
  /\ nOps = 0
  /\ progress = FALSE
  /\ ev = Quiet

\* a mapped file on a host whose remote read and write may reject
InitTeardown ==
  /\ \E s \in
       (
         [cfg : {VuexConfig(DefaultAutoSaveMinutes, TRUE)}, temp : {OldFile},
          files : {[n \in {OldFile} |-> ValidDoc]},
          faulty : {{"saveFileContent", "getFileContent"}}, ops : {MaxOps}]
       ) :
       /\ cfg = s.cfg
       /\ temp = s.temp
       /\ files = s.files
       /\ env = [faulty |-> s.faulty, ops |-> s.ops]
  /\ vueInstance = FALSE
  /\ teraReady = FALSE
  /\ saveInProgress = FALSE
  /\ saveStatus = SAVED
  /\ autoSaveInterval = 0
  /\ hotkeys = FALSE
  /\ store = State0
  /\ mirror = SAVED
  /\ unsubscribe = 0
  /\ subs = {}
  /\ timers = {}
  /\ tasks = [t \in Slots |-> Idle]
  /\ nOps = 0
  /\ progress = FALSE
  /\ ev = Quiet

(***************************************************************************)
(* Helpers of the engine.                                                  *)
(***************************************************************************)
\* the adapter's subscription wrapper passes the notice of the engine's own
\* status write on to the engine's callback: never for Vuex (the mutation type
\* starts with '__tera_file_sync/'), for Pinia when the notice carries no
\* events, for the host's own store whenever it sends a notice
ReachesCallback ==
  CASE cfg.adapter = "vuex" -> FALSE
    [] cfg.adapter = "pinia" -> ~cfg.events
    [] OTHER -> cfg.notifies

\* an engine was constructed
Built == cfg.adapter # "none"

\* updateSaveStatus while the subscription callback, if the write reaches it,
\* sees saveInProgress as busyAtWrite (a notice sent during the write) or as
\* busyAfter (Pinia's notice of a direct assignment, sent when the running code
\* has reached its next await); a commit to the Vuex module after it was
\* unregistered changes nothing
UpdateSaveStatusSeen(s, busyAtWrite, busyAfter) ==
  LET busy == IF cfg.adapter = "pinia" THEN busyAfter ELSE busyAtWrite
      final == IF ReachesCallback /\ subs # {} /\ ~busy THEN UNSAVED ELSE s
  IN /\ saveStatus' = final
     /\ mirror' = IF mirror = "none" THEN "none" ELSE final

\* updateSaveStatus in code that does not change saveInProgress
UpdateSaveStatus(s) == UpdateSaveStatusSeen(s, saveInProgress, saveInProgress)

\* the key of the bookkeeping namespace in the container
BookKey == IF cfg.adapter = "pinia" THEN "saveStatus" ELSE "__tera_file_sync"
\* the bookkeeping entry that holds status m
BookEntry(m) ==
  IF cfg.adapter = "pinia" THEN Str(m) ELSE Obj(Put(NoProps, "saveStatus", Str(m)))
\* the status a bookkeeping entry shows
MirrorOf(v) ==
  IF cfg.adapter = "pinia"
  THEN IF Tag(v) = "str" THEN v[2] ELSE "invalid"
  ELSE IF Tag(v) = "obj" /\ "saveStatus" \in DOMAIN v[2] /\ Tag(v[2]["saveStatus"]) = "str"
       THEN v[2]["saveStatus"][2] ELSE "invalid"

\* store.state / store.$state: the host's state and the bookkeeping entry; the
\* host's own store keeps the status where it likes
Container ==
  IF cfg.adapter = "plain" \/ mirror = "none"
  THEN store
  ELSE Obj(Put(store[2], BookKey, BookEntry(mirror)))

Without(o, key) == Obj([k \in (DOMAIN o[2]) \ {key} |-> o[2][k]])

\* a snapshot that keeps the bookkeeping entry
GetWholeState == Container
\* adapter.getState: const { __tera_file_sync, ...stateToSave } = this.store.state
\* (Vuex), const { saveStatus, ...stateToSave } = this.store.$state (Pinia),
\* this.store.getState() (the host's own store)
GetState == IF cfg.adapter = "plain" THEN store ELSE Without(Container, BookKey)

\* $patch of Pinia: a plain object of the patch is merged into a plain object of
\* the target, every other value is assigned
RECURSIVE PatchMerge(_, _)
PatchMerge(target, patch) ==
  Obj([k \in (DOMAIN target[2]) \cup (DOMAIN patch[2]) |->
         IF k \notin DOMAIN patch[2] THEN target[2][k]
         ELSE IF k \in DOMAIN target[2] /\ Tag(target[2][k]) = "obj"
                   /\ Tag(patch[2][k]) = "obj"
              THEN PatchMerge(target[2][k], patch[2][k])
              ELSE patch[2][k]])

\* the container after adapter.replaceState(newState): {...this.store.state,
\* ...newState} for Vuex, $patch(newState) for Pinia, the host's replaceState for
\* its own store; a value that is not a plain object spreads no property here
Replaced(newState) ==
  IF Tag(newState) # "obj" THEN Container
  ELSE CASE cfg.adapter = "vuex" ->
              Obj([k \in (DOMAIN Container[2]) \cup (DOMAIN newState[2]) |->
                     IF k \in DOMAIN newState[2] THEN newState[2][k] ELSE Container[2][k]])
         [] cfg.adapter = "pinia" -> PatchMerge(Container, newState)
         [] OTHER -> newState

\* the status the bookkeeping entry shows after adapter.replaceState(newState)
ReplacedMirror(newState) ==
  IF cfg.adapter # "plain" /\ mirror # "none" /\ BookKey \in DOMAIN Replaced(newState)[2]
  THEN MirrorOf(Replaced(newState)[2][BookKey])
  ELSE mirror

\* adapter.replaceState(newState) sends a notice that reaches the engine's
\* callback: Vuex's replaceState calls no subscriber, the notice of Pinia's $patch
\* has no events.key, the host's own store decides for itself
ReplaceReachesCallback ==
  cfg.adapter = "pinia" \/ (cfg.adapter = "plain" /\ cfg.notifies)

\* the status and the bookkeeping entry after adapter.replaceState(newState)
StatusAfterReplace(newState) ==
  IF ReplaceReachesCallback /\ subs # {} /\ ~saveInProgress
  THEN UpdateSaveStatus(UNSAVED)
  ELSE /\ saveStatus' = saveStatus
       /\ mirror' = ReplacedMirror(newState)

\* the host's state after adapter.replaceState(newState)
ReplaceState(newState) ==
  IF cfg.adapter = "plain" THEN Replaced(newState) ELSE Without(Replaced(newState), BookKey)

\* a check that stops the save only on the literal false
VetoesOnFalse(r) == r = Bool(FALSE)
\* validationResult !== true
HookVetoes(r) == r # Bool(TRUE)
\* typeof validationResult === 'string' && validationResult.length > 0
HookNotice(r) == IF Tag(r) = "str" /\ r[2] # "" THEN r[2] ELSE ""

\* the call that follows getStorageFileName in its caller: api.saveFileContent
\* in a save, $tera.getProjectFile in getFileMetadata, api.getFileContent in a load
AfterResolve(tk) ==
  CASE tk.kind = "save" -> "write"
    [] tk.kind = "meta" -> "getFile"
    [] OTHER -> "read"

\* a resolution that asks for the same file name on every attempt
ResolveSameName(tk, slot) ==
  IF temp # NoFile
  THEN [tk EXCEPT !.name = temp, !.sub = 0, !.pc = AfterResolve(tk)]
  ELSE [tk EXCEPT !.name = NewName(slot, 1), !.sub = 1, !.pc = "create"]
\* the first await of getStorageFileName and of its caller: the mapped file is
\* used, or a new one is provisioned
Resolve(tk, slot) ==
  IF temp # NoFile
  THEN [tk EXCEPT !.name = temp, !.sub = 0, !.pc = AfterResolve(tk)]
  ELSE [tk EXCEPT !.name = NewName(slot, tk.attempt), !.sub = 1, !.pc = "create"]

\* the call a task is awaiting
CallOf(tk) ==
  CASE tk.pc = "write" -> "saveFileContent"
    [] tk.pc = "read" -> "getFileContent"
    [] tk.pc = "create" -> "createProjectFile"
    [] tk.pc = "setContents" -> "setContents"
    [] tk.pc = "setState" -> "setProjectState"
    [] tk.pc = "select" -> "selectProjectFile"
    [] tk.pc = "getContents" -> "getContents"
    [] tk.pc = "setPointer" -> "setProjectState"
    [] tk.pc = "getFile" -> "getProjectFile"
    [] OTHER -> "uiProgress"

\* the awaited call of task t may reject
CanFail(t) == CallOf(tasks[t]) \in env.faulty

\* groups of variables an action leaves alone
flags == <<vueInstance, teraReady, autoSaveInterval, hotkeys>>
hooks == <<unsubscribe, subs, timers>>
remote == <<temp, files>>
status == <<saveStatus, mirror>>

Step(note, why) == Event("step", "none", note, why, Null)

(***************************************************************************)
(* saveStateToFile.                                                        *)
(***************************************************************************)
\* a guard that lets every save request through
NeverBusy == FALSE
\* if (this.saveInProgress) return false
SaveIsBusy == saveInProgress

\* saveStateToFile, from the call to its first await
SaveStateToFile(origin, r) ==
  IF ~vueInstance
  THEN /\ ev' = Event("save", "false", "", "noInstance", Null)
       /\ UNCHANGED <<cfg, flags, hooks, remote, status, saveInProgress, store, tasks,
                      nOps, env, progress>>
  ELSE IF HookVetoes(r)
  THEN /\ ev' = Event("save", "false", HookNotice(r), "veto", r)
       /\ UNCHANGED <<cfg, flags, hooks, remote, status, saveInProgress, store, tasks,
                      nOps, env, progress>>
  ELSE IF SaveIsBusy
  THEN /\ ev' = Event("save", "false", "", "busy", r)
       /\ UNCHANGED <<cfg, flags, hooks, remote, status, saveInProgress, store, tasks,
                      nOps, env, progress>>
  ELSE /\ nOps < env.ops
       /\ nOps' = nOps + 1
       /\ tasks' = [tasks EXCEPT ![nOps + 1] =
                      [Idle EXCEPT !.kind = "save", !.pc = "progOn", !.attempt = 1,
                                   !.snap = GetState, !.at = temp]]
       /\ saveInProgress' = TRUE
       /\ UpdateSaveStatusSeen(SAVING, TRUE, TRUE)
       /\ ev' = Event(origin, "none", "", "start", r)
       /\ UNCHANGED <<cfg, flags, hooks, remote, store, env, progress>>

\* the public saveState()
SaveState == \E r \in HookResults : SaveStateToFile("saveState", r)

\* handleKeyDown: Ctrl+S while the listener is registered
HotkeySave == hotkeys /\ \E r \in HookResults : SaveStateToFile("hotkey", r)

\* a callback that saves on every tick
TickAlwaysSaves == TRUE
\* if (this._saveStatus !== SaveStatus.SAVED), in the interval callback
TickSaves == saveStatus # SAVED

\* the callback of setInterval in setupAutoSave
AutoSaveTick ==
  /\ timers # {}
  /\ IF TickSaves
     THEN \E r \in HookResults : SaveStateToFile("tick", r)
     ELSE /\ ev' = Event("tick", "none", "", "skipped", Null)
          /\ UNCHANGED <<cfg, flags, hooks, remote, status, saveInProgress, store,
                         tasks, nOps, env, progress>>

\* what a task keeps when its pRetry is over
Settled(tk, ret, why) ==
  [tk EXCEPT !.pc = "progOff", !.ret = ret, !.why = why, !.name = NoFile, !.sub = 0,
             !.snap = Null, !.at = NoFile, !.body = Null]

\* the end of the try block of saveStateToFile, and its finally block up to the
\* await of uiProgress(false)
SaveSucceeded(t) ==
  /\ tasks' = [tasks EXCEPT ![t] = Settled(tasks[t], "true", "ok")]
  /\ UpdateSaveStatusSeen(SAVED, saveInProgress, FALSE)
  /\ saveInProgress' = FALSE
  /\ ev' = Quiet

\* a catch block that reports the failed save as a success
SaveFailureHidden(t, why) == SaveSucceeded(t)
\* a catch block that leaves the status as the save set it
SaveFailedStaysSaving(t, why) ==
  /\ tasks' = [tasks EXCEPT ![t] = Settled(tasks[t], "false", why)]
  /\ UNCHANGED status
  /\ saveInProgress' = FALSE
  /\ ev' = Step(NoticeSaveFailed, why)
\* the catch block of saveStateToFile, and its finally block up to the await of
\* uiProgress(false)
SaveFailed(t, why) ==
  /\ tasks' = [tasks EXCEPT ![t] = Settled(tasks[t], "false", why)]
  /\ UpdateSaveStatusSeen(UNSAVED, saveInProgress, FALSE)
  /\ saveInProgress' = FALSE
  /\ ev' = Step(NoticeSaveFailed, why)

\* the catch block of loadStateFromFile returns null (an error whose message
\* includes 'not found' is not reported), and loadAndApplyStateFromFile goes on
\* with no file data
LoadFailed(t, why, silent) ==
  /\ tasks' = [tasks EXCEPT ![t] = Settled(tasks[t], "true", why)]
  /\ UpdateSaveStatus(UNSAVED)
  /\ ev' = Step(IF silent THEN "" ELSE NoticeLoadFailed, why)
  /\ UNCHANGED saveInProgress

\* the catch block of getFileMetadata: getStorageFileName or getProjectFile has
\* thrown, null is returned
MetadataFailed(t, why) ==
  /\ tasks' = [tasks EXCEPT ![t] = Idle]
  /\ ev' = Event("metadata", "null", "", why, Null)
  /\ UNCHANGED <<status, saveInProgress>>

\* a pRetry that starts over whenever an attempt has thrown
FailAttemptAgain(t, why) ==
  /\ tasks' = [tasks EXCEPT ![t] = Resolve([tasks[t] EXCEPT !.body = Null], t)]
  /\ ev' = Quiet
  /\ UNCHANGED <<status, saveInProgress>>

\* one attempt of an outer pRetry has thrown: the next attempt starts, or the
\* retries are used up and the error reaches the catch block
FailAttempt(t, why) ==
  LET tk == tasks[t]
      again == [tk EXCEPT !.attempt = @ + 1, !.body = Null]
  IN IF tk.kind = "meta"
     THEN MetadataFailed(t, why)
     ELSE IF tk.attempt <= (IF tk.kind = "save" THEN SaveRetries ELSE LoadRetries)
     THEN /\ tasks' = [tasks EXCEPT ![t] = Resolve(again, t)]
          /\ ev' = Quiet
          /\ UNCHANGED <<status, saveInProgress>>
     ELSE IF tk.kind = "save"
     THEN SaveFailed(t, why)
     ELSE \E silent \in {FALSE, why = "resolveFailed"} : LoadFailed(t, why, silent)

(***************************************************************************)
(* The steps of a save or load in flight.                                  *)
(***************************************************************************)
\* uiProgress({title, backdrop}) resolves: the first attempt of pRetry starts
ProgressOnOk(t) ==
  /\ tasks[t].pc = "progOn"
  /\ tasks' = [tasks EXCEPT ![t] = Resolve(tasks[t], t)]
  /\ ev' = Quiet
  /\ UNCHANGED <<cfg, flags, hooks, remote, status, saveInProgress, store, nOps, env>>
  /\ progress' = TRUE

\* uiProgress({title, backdrop}) rejects: the catch block of the operation runs
ProgressOnFail(t) ==
  /\ tasks[t].pc = "progOn"
  /\ CanFail(t)
  /\ IF tasks[t].kind = "save"
     THEN SaveFailed(t, "progress")
     ELSE /\ tasks' = [tasks EXCEPT ![t] = Settled(tasks[t], "false", "progress")]
          /\ ev' = Step(NoticeLoadApplyFailed, "progress")
          /\ UNCHANGED <<status, saveInProgress>>
  /\ UNCHANGED <<cfg, flags, hooks, remote, store, nOps, env, progress>>

\* createProjectFile resolves: setContents(this.adapter.getState()) is called
CreateFileOk(t) ==
  /\ tasks[t].pc = "create"
  /\ files' = Put(files, tasks[t].name, EmptyBody)
  /\ tasks' = [tasks EXCEPT ![t] = [@ EXCEPT !.pc = "setContents", !.sub = 1,
                                               !.body = JsonRoundTrip(GetState)]]
  /\ ev' = Quiet
  /\ UNCHANGED <<cfg, flags, hooks, temp, status, saveInProgress, store, nOps, env, progress>>

\* a pRetry that gives up one call earlier
ProvisionFailsEarly(t) ==
  /\ CanFail(t)
  /\ IF tasks[t].sub < ProvisionRetries
     THEN /\ tasks' = [tasks EXCEPT ![t] =
                         [@ EXCEPT !.sub = @ + 1,
                                   !.body = IF tasks[t].pc = "setContents"
                                            THEN JsonRoundTrip(GetState) ELSE Null]]
          /\ ev' = Quiet
          /\ UNCHANGED <<status, saveInProgress>>
     ELSE FailAttempt(t, "resolveFailed")
  /\ UNCHANGED <<cfg, flags, hooks, remote, store, nOps, env, progress>>

\* a provisioning sub-step rejects: its own pRetry runs it again, or throws
ProvisionFail(t) ==
  /\ CanFail(t)
  /\ IF tasks[t].sub <= ProvisionRetries
     THEN /\ tasks' = [tasks EXCEPT ![t] =
                         [@ EXCEPT !.sub = @ + 1,
                                   !.body = IF tasks[t].pc = "setContents"
                                            THEN JsonRoundTrip(GetState) ELSE Null]]
          /\ ev' = Quiet
          /\ UNCHANGED <<status, saveInProgress>>
     ELSE FailAttempt(t, "resolveFailed")
  /\ UNCHANGED <<cfg, flags, hooks, remote, store, nOps, env, progress>>

CreateFileFail(t) == tasks[t].pc = "create" /\ ProvisionFail(t)

\* newFile.setContents resolves: setProjectState(`temp.${key}`, name) is called
SetContentsOk(t) ==
  /\ tasks[t].pc = "setContents"
  /\ files' = Put(files, tasks[t].name, tasks[t].body)
  /\ tasks' = [tasks EXCEPT ![t] = [@ EXCEPT !.pc = "setState", !.sub = 1, !.body = Null]]
  /\ ev' = Quiet
  /\ UNCHANGED <<cfg, flags, hooks, temp, status, saveInProgress, store, nOps, env, progress>>

SetContentsFail(t) == tasks[t].pc = "setContents" /\ ProvisionFail(t)

\* setProjectState resolves: the key maps to the new file, which the caller uses
SetStateOk(t) ==
  /\ tasks[t].pc = "setState"
  /\ temp' = tasks[t].name
  /\ tasks' = [tasks EXCEPT ![t] = [@ EXCEPT !.sub = 0, !.pc = AfterResolve(tasks[t])]]
  /\ ev' = Quiet
  /\ UNCHANGED <<cfg, flags, hooks, files, status, saveInProgress, store, nOps, env, progress>>

SetStateFail(t) == tasks[t].pc = "setState" /\ ProvisionFail(t)

\* api.saveFileContent resolves: the file holds JSON.stringify(mapSetToObject(state))
WriteOk(t) ==
  /\ tasks[t].pc = "write"
  /\ files' = Put(files, tasks[t].name, JsonRoundTrip(mapSetToObject(tasks[t].snap)))
  /\ SaveSucceeded(t)
  /\ UNCHANGED <<cfg, flags, hooks, temp, store, nOps, env, progress>>

\* api.saveFileContent rejects (network error, non-2xx status, missing token)
WriteFail(t) ==
  /\ tasks[t].pc = "write"
  /\ CanFail(t)
  /\ FailAttempt(t, "mainFailed")
  /\ UNCHANGED <<cfg, flags, hooks, remote, store, nOps, env, progress>>

\* loadAndApplyStateFromFile after loadStateFromFile has returned null
LoadedNothing(t, why) ==
  /\ tasks' = [tasks EXCEPT ![t] = Settled(tasks[t], "true", why)]
  /\ UpdateSaveStatus(UNSAVED)
  /\ ev' = Step("", why)
  /\ UNCHANGED store

\* loadStateFromFile has returned the content: it is decoded and applied
LoadedContent(t, content) ==
  LET parsedState == objectToMapSet(content)
  IN /\ UpdateSaveStatus(SAVED)
     /\ IF parsedState = Throw
        THEN /\ tasks' = [tasks EXCEPT ![t] = Settled(tasks[t], "false", "decode")]
             /\ ev' = Step(NoticeLoadApplyFailed, "decode")
             /\ UNCHANGED store
        ELSE /\ tasks' = [tasks EXCEPT ![t] = Settled(tasks[t], "true", "ok")]
             /\ store' = ReplaceState(parsedState)
             /\ ev' = Quiet

\* api.getFileContent gets a response with status 404 or with a JSON body
ReadOk(t) ==
  /\ tasks[t].pc = "read"
  /\ (tasks[t].name \in DOMAIN files => files[tasks[t].name] # EmptyBody)
  /\ IF tasks[t].name \notin DOMAIN files
     THEN LoadedNothing(t, "notFound")
     ELSE IF Falsy(files[tasks[t].name])
     THEN LoadedNothing(t, "empty")
     ELSE LoadedContent(t, files[tasks[t].name])
  /\ UNCHANGED <<cfg, flags, hooks, remote, saveInProgress, nOps, env, progress>>

\* api.getFileContent gets a 2xx response whose body is empty: response.json()
\* throws and the attempt fails with 'Failed to parse JSON content from file'
ReadEmptyBody(t) ==
  /\ tasks[t].pc = "read"
  /\ tasks[t].name \in DOMAIN files
  /\ files[tasks[t].name] = EmptyBody
  /\ FailAttempt(t, "emptyBody")
  /\ UNCHANGED <<cfg, flags, hooks, remote, store, nOps, env, progress>>

\* api.getFileContent rejects (network error, status other than 2xx and 404)
ReadFail(t) ==
  /\ tasks[t].pc = "read"
  /\ CanFail(t)
  /\ FailAttempt(t, "mainFailed")
  /\ UNCHANGED <<cfg, flags, hooks, remote, store, nOps, env, progress>>

\* registerHotkeys() and the finally block of initializeState
FinishInitialize == hotkeys' = TRUE

\* the uiProgress(false) of a finally block resolves: a save or load returns its
\* result; the load that initializeState awaited lets initializeState go on
ProgressOffOk(t) ==
  /\ tasks[t].pc = "progOff"
  /\ IF tasks[t].kind = "ready"
     THEN /\ tasks' = [tasks EXCEPT ![t] = [@ EXCEPT !.pc = "initOff"]]
          /\ FinishInitialize
          /\ ev' = Quiet
     ELSE /\ tasks' = [tasks EXCEPT ![t] = Idle]
          /\ ev' = Event(tasks[t].kind, tasks[t].ret, "", tasks[t].why, Null)
          /\ UNCHANGED hotkeys
  /\ UNCHANGED <<cfg, vueInstance, teraReady, autoSaveInterval, hooks, remote, status,
                 saveInProgress, store, nOps, env>>
  /\ progress' = FALSE

\* the uiProgress(false) of a finally block rejects: the operation ends with that
\* error; initializeState catches the error of the load it awaited
ProgressOffFail(t) ==
  /\ tasks[t].pc = "progOff"
  /\ CanFail(t)
  /\ IF tasks[t].kind = "ready"
     THEN /\ tasks' = [tasks EXCEPT ![t] = [@ EXCEPT !.pc = "initOff", !.why = "loadThrew"]]
          /\ ev' = Step(NoticeInitFailed, "loadThrew")
     ELSE /\ tasks' = [tasks EXCEPT ![t] = Idle]
          /\ ev' = Event(tasks[t].kind, "throw", "", tasks[t].why, Null)
  /\ UNCHANGED <<cfg, vueInstance, teraReady, autoSaveInterval, hotkeys, hooks, remote,
                 status, saveInProgress, store, nOps, env, progress>>

(***************************************************************************)
(* The public operations.                                                  *)
(***************************************************************************)
SetVueInstance ==
  /\ Built
  /\ vueInstance' = TRUE
  /\ ev' = Quiet
  /\ UNCHANGED <<cfg, teraReady, autoSaveInterval, hotkeys, hooks, remote,
                 status, saveInProgress, store, tasks, nOps, env, progress>>

\* loadAndApplyStateFromFile, from the call to its first await
LoadAndApplyStateFromFile ==
  IF ~vueInstance
  THEN /\ ev' = Event("load", "false", "", "noInstance", Null)
       /\ UNCHANGED <<cfg, flags, hooks, remote, status, saveInProgress, store, tasks,
                      nOps, env, progress>>
  ELSE /\ nOps < env.ops
       /\ nOps' = nOps + 1
       /\ tasks' = [tasks EXCEPT ![nOps + 1] =
                      [Idle EXCEPT !.kind = "load", !.pc = "progOn", !.attempt = 1]]
       /\ ev' = Quiet
       /\ UNCHANGED <<cfg, flags, hooks, remote, status, saveInProgress, store, env, progress>>

\* setTeraReady, from the call to the first await of initializeState
SetTeraReady ==
  /\ Built
  /\ IF ~vueInstance
     THEN /\ ev' = Event("ready", "throw", "", "noInstance", Null)
          /\ UNCHANGED <<cfg, flags, hooks, remote, status, saveInProgress, store, tasks,
                         nOps, env, progress>>
     ELSE /\ nOps < env.ops
          /\ nOps' = nOps + 1
          /\ teraReady' = TRUE
          /\ tasks' = [tasks EXCEPT ![nOps + 1] =
                         [Idle EXCEPT !.kind = "ready", !.pc = "initOn"]]
          /\ ev' = Quiet
          /\ UNCHANGED <<cfg, vueInstance, autoSaveInterval, hotkeys, hooks,
                         remote, status, saveInProgress, store, env, progress>>

\* an initializeState that loads the file whatever the configuration says
AlwaysLoadsAtReady == TRUE
\* if (loadImmediately), in initializeState
LoadsAtReady == cfg.loadImmediately

\* the first uiProgress of initializeState resolves
InitProgressOnOk(t) ==
  /\ tasks[t].pc = "initOn"
  /\ IF LoadsAtReady
     THEN /\ tasks' = [tasks EXCEPT ![t] = [@ EXCEPT !.pc = "progOn", !.attempt = 1]]
          /\ UNCHANGED <<status, hotkeys>>
     ELSE /\ tasks' = [tasks EXCEPT ![t] = [@ EXCEPT !.pc = "initOff"]]
          /\ UpdateSaveStatus(UNSAVED)
          /\ FinishInitialize
  /\ ev' = Quiet
  /\ UNCHANGED <<cfg, vueInstance, teraReady, autoSaveInterval, hooks, remote,
                 saveInProgress, store, nOps, env>>
  /\ progress' = TRUE

\* the first uiProgress of initializeState rejects, outside its try block
InitProgressOnFail(t) ==
  /\ tasks[t].pc = "initOn"
  /\ CanFail(t)
  /\ tasks' = [tasks EXCEPT ![t] = Idle]
  /\ ev' = Event("ready", "throw", "", "progress", Null)
  /\ UNCHANGED <<cfg, flags, hooks, remote, status, saveInProgress, store, nOps, env, progress>>

\* setupAutoSave: nothing when the interval is 0; else the old timer is cleared
\* and a new one started
SetupAutoSave(t) ==
  IF cfg.interval <= 0
  THEN UNCHANGED <<timers, autoSaveInterval>>
  ELSE /\ timers' = (timers \ {autoSaveInterval}) \cup {t}
       /\ autoSaveInterval' = t

\* setupStateChangeTracking: adapter.subscribe keeps only the new unsubscribe
SetupStateChangeTracking(t) ==
  /\ subs' = subs \cup {t}
  /\ unsubscribe' = t

\* the last uiProgress(false) of initializeState resolves: setTeraReady sets up
\* autosave and mutation tracking and returns
InitProgressOffOk(t) ==
  /\ tasks[t].pc = "initOff"
  /\ SetupAutoSave(t)
  /\ SetupStateChangeTracking(t)
  /\ tasks' = [tasks EXCEPT ![t] = Idle]
  /\ ev' = Event("ready", "ok", "", tasks[t].why, Null)
  /\ UNCHANGED <<cfg, vueInstance, teraReady, hotkeys, remote, status,
                 saveInProgress, store, nOps, env>>
  /\ progress' = FALSE

\* the last uiProgress(false) of initializeState rejects, in its finally block
InitProgressOffFail(t) ==
  /\ tasks[t].pc = "initOff"
  /\ CanFail(t)
  /\ tasks' = [tasks EXCEPT ![t] = Idle]
  /\ ev' = Event("ready", "throw", "", "progress", Null)
  /\ UNCHANGED <<cfg, flags, hooks, remote, status, saveInProgress, store, nOps, env, progress>>

\* if (!this.saveInProgress), in the subscription callback
TracksMutation == ~saveInProgress

\* the host commits a mutation; the store calls the subscribers that are left
Mutate(v) ==
  /\ v # store
  /\ store' = v
  /\ IF subs # {} /\ TracksMutation
     THEN UpdateSaveStatus(UNSAVED)
     ELSE UNCHANGED status
  /\ ev' = Quiet
  /\ UNCHANGED <<cfg, flags, hooks, remote, saveInProgress, tasks, nOps, env, progress>>

\* a destroy() that also drops the operations in flight and their status
DestroyAborts ==
  /\ timers' = timers \ {autoSaveInterval}
  /\ hotkeys' = FALSE
  /\ subs' = subs \ {unsubscribe}
  /\ mirror' = IF cfg.adapter = "vuex" THEN "none" ELSE mirror
  /\ teraReady' = FALSE
  /\ tasks' = [t \in Slots |-> Idle]
  /\ saveInProgress' = FALSE
  /\ saveStatus' = UNSAVED
  /\ ev' = Quiet
  /\ UNCHANGED <<cfg, vueInstance, autoSaveInterval, unsubscribe, remote, store, nOps, env, progress>>

\* destroy(): the timer of the kept handle is cleared, the listeners removed, the
\* last subscription ended and, by the Vuex adapter, the module unregistered
Destroy ==
  /\ timers' = timers \ {autoSaveInterval}
  /\ hotkeys' = FALSE
  /\ subs' = subs \ {unsubscribe}
  /\ mirror' = IF cfg.adapter = "vuex" THEN "none" ELSE mirror
  /\ teraReady' = FALSE
  /\ ev' = Quiet
  /\ UNCHANGED <<cfg, vueInstance, autoSaveInterval, unsubscribe, remote, saveStatus,
                 saveInProgress, store, tasks, nOps, env, progress>>

(***************************************************************************)
(* promptForNewJsonFile.                                                   *)
(***************************************************************************)
\* setStateFromPromptedJsonFile, from the call to the await of selectProjectFile
PromptForNewJsonFile ==
  IF ~vueInstance
  THEN /\ ev' = Event("prompt", "ok", "", "noInstance", Null)
       /\ UNCHANGED <<cfg, flags, hooks, remote, status, saveInProgress, store, tasks,
                      nOps, env, progress>>
  ELSE /\ nOps < env.ops
       /\ nOps' = nOps + 1
       /\ tasks' = [tasks EXCEPT ![nOps + 1] = [Idle EXCEPT !.kind = "prompt", !.pc = "select"]]
       /\ ev' = Quiet
       /\ UNCHANGED <<cfg, flags, hooks, remote, status, saveInProgress, store, env, progress>>

\* the catch block of setStateFromPromptedJsonFile
PromptFailed(t, why) ==
  /\ tasks' = [tasks EXCEPT ![t] = Idle]
  /\ UpdateSaveStatus(UNSAVED)
  /\ ev' = Event("prompt", "ok", NoticePromptFailed, why, Null)
  /\ UNCHANGED <<cfg, flags, hooks, remote, saveInProgress, store, nOps, env, progress>>

\* a picker whose dismissal is handled like a failure
SelectCancelReported(t) == tasks[t].pc = "select" /\ PromptFailed(t, "cancel")
\* selectProjectFile resolves to nothing: the user cancelled
SelectCancel(t) ==
  /\ tasks[t].pc = "select"
  /\ tasks' = [tasks EXCEPT ![t] = Idle]
  /\ ev' = Event("prompt", "ok", "", "cancel", Null)
  /\ UNCHANGED <<cfg, flags, hooks, remote, status, saveInProgress, store, nOps, env, progress>>

\* selectProjectFile resolves to a file of the project: its contents are requested
SelectFile(t) ==
  /\ tasks[t].pc = "select"
  /\ \E f \in DOMAIN files :
       /\ files[f] # EmptyBody
       /\ tasks' = [tasks EXCEPT ![t] = [@ EXCEPT !.pc = "getContents", !.name = f,
                                                    !.attempt = 1]]
  /\ ev' = Quiet
  /\ UNCHANGED <<cfg, flags, hooks, remote, status, saveInProgress, store, nOps, env, progress>>

\* selectProjectFile rejects
SelectFail(t) ==
  /\ tasks[t].pc = "select"
  /\ CanFail(t)
  /\ PromptFailed(t, "selectFailed")

\* projectFile.getContents resolves: an empty file is reported, any other content
\* is decoded and put into the container before the mapping is written
GetContentsOk(t) ==
  LET fileData == files[tasks[t].name]
      parsedState == objectToMapSet(fileData)
  IN /\ tasks[t].pc = "getContents"
     /\ IF Falsy(fileData)
        THEN /\ tasks' = [tasks EXCEPT ![t] = Idle]
             /\ ev' = Event("prompt", "ok", NoticeSelectedEmpty, "empty", Null)
             /\ UNCHANGED <<cfg, flags, hooks, remote, status, saveInProgress, store,
                            nOps, env, progress>>
        ELSE IF parsedState = Throw
        THEN PromptFailed(t, "decode")
        ELSE /\ store' = ReplaceState(parsedState)
             /\ StatusAfterReplace(parsedState)
             /\ tasks' = [tasks EXCEPT ![t] = [@ EXCEPT !.pc = "setPointer"]]
             /\ ev' = Quiet
             /\ UNCHANGED <<cfg, flags, hooks, remote, saveInProgress, nOps, env, progress>>

\* projectFile.getContents rejects: pRetry runs it again, or throws
GetContentsFail(t) ==
  /\ tasks[t].pc = "getContents"
  /\ CanFail(t)
  /\ IF tasks[t].attempt <= PromptRetries
     THEN /\ tasks' = [tasks EXCEPT ![t] = [@ EXCEPT !.attempt = @ + 1]]
          /\ ev' = Quiet
          /\ UNCHANGED <<cfg, flags, hooks, remote, status, saveInProgress, store,
                         nOps, env, progress>>
     ELSE PromptFailed(t, "mainFailed")

\* setProjectState(`temp.${key}`, projectFile.path) resolves
SetPointerOk(t) ==
  /\ tasks[t].pc = "setPointer"
  /\ temp' = tasks[t].name
  /\ UpdateSaveStatus(SAVED)
  /\ tasks' = [tasks EXCEPT ![t] = Idle]
  /\ ev' = Event("prompt", "ok", "", "ok", Null)
  /\ UNCHANGED <<cfg, flags, hooks, files, saveInProgress, store, nOps, env, progress>>

\* setProjectState(`temp.${key}`, projectFile.path) rejects
SetPointerFail(t) ==
  /\ tasks[t].pc = "setPointer"
  /\ CanFail(t)
  /\ PromptFailed(t, "pointerFailed")

(***************************************************************************)
(* getFileMetadata.                                                        *)
(***************************************************************************)
\* getFileMetadata, from the call to the first await of a host call: of
\* getProjectFile, or of createProjectFile when getStorageFileName finds the key
\* unmapped (the name it returns is never empty)
GetFileMetadata ==
  IF ~vueInstance
  THEN /\ ev' = Event("metadata", "null", "", "noInstance", Null)
       /\ UNCHANGED <<cfg, flags, hooks, remote, status, saveInProgress, store, tasks,
                      nOps, env, progress>>
  ELSE /\ nOps < env.ops
       /\ nOps' = nOps + 1
       /\ tasks' = [tasks EXCEPT ![nOps + 1] =
                      Resolve([Idle EXCEPT !.kind = "meta", !.attempt = 1], nOps + 1)]
       /\ ev' = Quiet
       /\ UNCHANGED <<cfg, flags, hooks, remote, status, saveInProgress, store, env, progress>>

\* $tera.getProjectFile(fileName, {cache: false}) resolves, to the file object or
\* to null: the metadata or null is returned
GetFileOk(t) ==
  /\ tasks[t].pc = "getFile"
  /\ tasks' = [tasks EXCEPT ![t] = Idle]
  /\ ev' = Event("metadata",
                 IF tasks[t].name \in DOMAIN files THEN "metadata" ELSE "null",
                 "", "ok", Null)
  /\ UNCHANGED <<cfg, flags, hooks, remote, status, saveInProgress, store, nOps, env, progress>>

\* $tera.getProjectFile rejects
GetFileFail(t) ==
  /\ tasks[t].pc = "getFile"
  /\ CanFail(t)
  /\ MetadataFailed(t, "getFileFailed")
  /\ UNCHANGED <<cfg, flags, hooks, remote, store, nOps, env, progress>>

(***************************************************************************)
(* createTeraSync and the constructor.                                     *)
(***************************************************************************)
NoShapeError == "Could not determine store type. Please provide a valid Vuex store, Pinia store, or a custom aggregator object."
IntervalError == "autoSaveIntervalMinutes must be a non-negative number"
LoadImmediatelyError == "loadImmediately must be a boolean"
PiniaSetupError == "Pinia store must have a 'saveStatus' property in its state for TERA File Sync to work."

\* a probing that looks for the Vuex shape first
SelectVuexFirst(shape) ==
  IF VuexShape \subseteq shape THEN "vuex"
  ELSE IF PiniaShape \subseteq shape THEN "pinia"
  ELSE IF PlainShape \subseteq shape THEN "plain"
  ELSE "none"
\* the if / else if chain of createTeraSync
SelectAdapter(shape) ==
  IF PlainShape \subseteq shape THEN "plain"
  ELSE IF PiniaShape \subseteq shape THEN "pinia"
  ELSE IF VuexShape \subseteq shape THEN "vuex"
  ELSE "none"

\* { ...DEFAULT_CONFIG, ...config }
MergedConfig(given) ==
  [k \in DOMAIN DEFAULT_CONFIG |-> IF k \in DOMAIN given THEN given[k] ELSE DEFAULT_CONFIG[k]]

\* validateConfig: the message of the error it throws, "" when it returns
validateConfig(config) ==
  IF Tag(config.autoSaveIntervalMinutes) # "num" \/ config.autoSaveIntervalMinutes[2] < 0
  THEN IntervalError
  ELSE IF Tag(config.loadImmediately) # "bool"
  THEN LoadImmediatelyError
  ELSE ""

\* a setup that registers the Vuex module whether or not it is there
SetupAnew(adapter, m) ==
  CASE adapter = "vuex" -> [mirror |-> SAVED, error |-> ""]
    [] adapter = "pinia" ->
         [mirror |-> m, error |-> IF m = "none" THEN PiniaSetupError ELSE ""]
    [] OTHER -> [mirror |-> m, error |-> ""]
\* adapter.setup() on a container whose bookkeeping shows m: the bookkeeping
\* after it and the message of the error it throws, "" when it returns
Setup(adapter, m) ==
  CASE adapter = "vuex" -> [mirror |-> IF m # "none" THEN m ELSE SAVED, error |-> ""]
    [] adapter = "pinia" ->
         [mirror |-> m, error |-> IF m = "none" THEN PiniaSetupError ELSE ""]
    [] OTHER -> [mirror |-> m, error |-> ""]

\* createTeraSync(config, store) with the constructor it calls, on a store that
\* no engine has been wired to a Vue instance for
CreateTeraSync ==
  /\ ~vueInstance
  /\ ~teraReady
  /\ LET adapter == SelectAdapter(env.shape)
         merged == MergedConfig(env.given)
         invalid == validateConfig(merged)
         done == Setup(adapter, mirror)
         error == IF adapter = "none" THEN NoShapeError
                  ELSE IF invalid # "" THEN invalid
                  ELSE done.error
     IN IF error # ""
        THEN /\ ev' = Event("create", "throw", "", error, Null)
             /\ UNCHANGED <<cfg, flags, hooks, remote, status, saveInProgress, store,
                            tasks, nOps, env, progress>>
        ELSE /\ cfg' = StoreConfig(merged.autoSaveIntervalMinutes[2],
                                   merged.loadImmediately[2], adapter,
                                   env.events, env.notifies)
             /\ mirror' = done.mirror
             /\ saveStatus' = SAVED
             /\ saveInProgress' = FALSE
             /\ vueInstance' = FALSE
             /\ teraReady' = FALSE
             /\ autoSaveInterval' = 0
             /\ ev' = Event("create", "ok", "", "", Null)
             /\ UNCHANGED <<hotkeys, hooks, remote, store, tasks, nOps, env, progress>>

Next ==
  \/ SetVueInstance
  \/ SetTeraReady
  \/ SaveState
  \/ HotkeySave
  \/ AutoSaveTick
  \/ LoadAndApplyStateFromFile
  \/ \E v \in StoreValues : Mutate(v)
  \/ \E t \in Slots :
       \/ ProgressOnOk(t)
       \/ ProgressOnFail(t)
       \/ CreateFileOk(t)
       \/ CreateFileFail(t)
       \/ SetContentsOk(t)
       \/ SetContentsFail(t)
       \/ SetStateOk(t)
       \/ SetStateFail(t)
       \/ WriteOk(t)
       \/ WriteFail(t)
       \/ ReadOk(t)
       \/ ReadEmptyBody(t)
       \/ ReadFail(t)
       \/ ProgressOffOk(t)
       \/ ProgressOffFail(t)
       \/ InitProgressOnOk(t)
       \/ InitProgressOnFail(t)
       \/ InitProgressOffOk(t)
       \/ InitProgressOffFail(t)

Spec == Init /\ [][Next]_vars

\* the engine with its teardown
NextLifecycle == Next \/ Destroy
\* the continuation of the await that task t is suspended at: the awaited call
\* has resolved or rejected
TaskStep(t) ==
  \/ ProgressOnOk(t)
  \/ ProgressOnFail(t)
  \/ CreateFileOk(t)
  \/ CreateFileFail(t)
  \/ SetContentsOk(t)
  \/ SetContentsFail(t)
  \/ SetStateOk(t)
  \/ SetStateFail(t)
  \/ WriteOk(t)
  \/ WriteFail(t)
  \/ ReadOk(t)
  \/ ReadEmptyBody(t)
  \/ ReadFail(t)
  \/ ProgressOffOk(t)
  \/ ProgressOffFail(t)
  \/ InitProgressOnOk(t)
  \/ InitProgressOnFail(t)
  \/ InitProgressOffOk(t)
  \/ InitProgressOffFail(t)

\* every awaited call settles: it resolves or rejects in the end
CallsSettle == \A t \in Slots : WF_vars(TaskStep(t))

\* the engine on a host whose calls may reject, under the condition that every
\* awaited call settles
FairRetry == InitRetry /\ [][Next]_vars /\ CallsSettle

SpecLifecycle == Init /\ [][NextLifecycle]_vars

\* construction, and the first use of the engine it returns
NextConstruct ==
  \/ CreateTeraSync
  \/ SetVueInstance
  \/ SetTeraReady
  \/ \E t \in Slots :
       \/ ProgressOnOk(t)
       \/ ReadOk(t)
       \/ ProgressOffOk(t)
       \/ InitProgressOnOk(t)
       \/ InitProgressOffOk(t)

SpecConstruct == InitConstruct /\ [][NextConstruct]_vars

\* getFileMetadata beside mutations of the host, on a project with or without a
\* mapped file
NextMetadata ==
  \/ SetVueInstance
  \/ GetFileMetadata
  \/ \E v \in StoreValues : Mutate(v)
  \/ \E t \in Slots :
       \/ CreateFileOk(t)
       \/ CreateFileFail(t)
       \/ SetContentsOk(t)
       \/ SetContentsFail(t)
       \/ SetStateOk(t)
       \/ SetStateFail(t)
       \/ GetFileOk(t)
       \/ GetFileFail(t)

SpecMetadata == InitMetadata /\ [][NextMetadata]_vars

\* autosave on every kind of store, on a reliable host: the engine is made ready,
\* the host mutates the state and the timer ticks
NextAutoSave ==
  \/ SetVueInstance
  \/ SetTeraReady
  \/ AutoSaveTick
  \/ \E v \in StoreValues : Mutate(v)
  \/ \E t \in Slots :
       \/ ProgressOnOk(t)
       \/ WriteOk(t)
       \/ ReadOk(t)
       \/ ProgressOffOk(t)
       \/ InitProgressOnOk(t)
       \/ InitProgressOffOk(t)

\* the interval callback runs with a before-save hook that returns true
TickWithConsent == timers # {} /\ TickSaves /\ SaveStateToFile("tick", Bool(TRUE))

SpecAutoSave == InitAutoSave /\ [][NextAutoSave]_vars
\* every awaited call settles and a running timer keeps ticking
FairAutoSave == SpecAutoSave /\ CallsSettle /\ WF_vars(TickWithConsent)

\* teardown beside saves and loads whose remote call may reject
NextTeardown ==
  \/ SetVueInstance
  \/ SetTeraReady
  \/ SaveState
  \/ LoadAndApplyStateFromFile
  \/ Destroy
  \/ \E v \in StoreValues : Mutate(v)
  \/ \E t \in Slots :
       \/ ProgressOnOk(t)
       \/ WriteOk(t)
       \/ WriteFail(t)
       \/ ReadOk(t)
       \/ ReadFail(t)
       \/ ProgressOffOk(t)
       \/ InitProgressOnOk(t)
       \/ InitProgressOffOk(t)

FairTeardown == InitTeardown /\ [][NextTeardown]_vars /\ CallsSettle

\* first use of a key on a reliable host: no call rejects
NextProvision ==
  \/ SetVueInstance
  \/ SetTeraReady
  \/ SaveState
  \/ HotkeySave
  \/ AutoSaveTick
  \/ LoadAndApplyStateFromFile
  \/ \E v \in StoreValues : Mutate(v)
  \/ \E t \in Slots :
       \/ ProgressOnOk(t)
       \/ CreateFileOk(t)
       \/ SetContentsOk(t)
       \/ SetStateOk(t)
       \/ WriteOk(t)
       \/ ReadOk(t)
       \/ ProgressOffOk(t)
       \/ InitProgressOnOk(t)
       \/ InitProgressOffOk(t)

SpecProvision == InitProvision /\ [][NextProvision]_vars

\* the engine with its file prompt, beside manual saves, reloads and mutations
NextPrompt ==
  \/ SetVueInstance
  \/ PromptForNewJsonFile
  \/ SaveState
  \/ LoadAndApplyStateFromFile
  \/ \E v \in StoreValues : Mutate(v)
  \/ \E t \in Slots :
       \/ SelectCancel(t)
       \/ SelectFile(t)
       \/ SelectFail(t)
       \/ GetContentsOk(t)
       \/ GetContentsFail(t)
       \/ SetPointerOk(t)
       \/ SetPointerFail(t)
       \/ ProgressOnOk(t)
       \/ WriteOk(t)
       \/ ReadOk(t)
       \/ ProgressOffOk(t)

SpecPrompt == InitPrompt /\ [][NextPrompt]_vars

\* a container of any codec shape is saved to and loaded from its file
NextCodec ==
  \/ SetVueInstance
  \/ SaveState
  \/ LoadAndApplyStateFromFile
  \/ \E t \in Slots :
       \/ ProgressOnOk(t)
       \/ WriteOk(t)
       \/ ReadOk(t)
       \/ ProgressOffOk(t)

SpecCodec == InitCodec /\ [][NextCodec]_vars

\* the engine on every kind of store, on a reliable host
NextAdapters ==
  \/ SetVueInstance
  \/ SetTeraReady
  \/ SaveState
  \/ LoadAndApplyStateFromFile
  \/ PromptForNewJsonFile
  \/ \E v \in StoreValues : Mutate(v)
  \/ \E t \in Slots :
       \/ ProgressOnOk(t)
       \/ CreateFileOk(t)
       \/ SetContentsOk(t)
       \/ SetStateOk(t)
       \/ WriteOk(t)
       \/ ReadOk(t)
       \/ ProgressOffOk(t)
       \/ InitProgressOnOk(t)
       \/ InitProgressOffOk(t)
       \/ SelectCancel(t)
       \/ SelectFile(t)
       \/ GetContentsOk(t)
       \/ SetPointerOk(t)

SpecAdapters == InitAdapters /\ [][NextAdapters]_vars

(***************************************************************************)
(* The claims of the specification.                                        *)
(***************************************************************************)
\* the save of slot t has passed the in-progress check and has not yet reached
\* the end of its try/catch: its remote write sequence is in flight
SaveInFlight(t) == tasks[t].kind = "save" /\ tasks[t].pc \notin {"idle", "progOff"}
SavesInFlight == {t \in Slots : SaveInFlight(t)}
\* everything but the record of the last step
engine == <<cfg, vueInstance, teraReady, saveInProgress, saveStatus, autoSaveInterval,
            hotkeys, store, mirror, unsubscribe, subs, timers, temp, files, tasks, nOps,
            env, progress>>

\* C1 (single-flight): at most one save has its remote write sequence in flight at
\* any time, whatever the interleaving of saveState, hotkey and autosave requests;
\* a request refused because a save is in progress returns false at once, while
\* a save is in flight, and changes nothing: no task is started, no remote call is
\* made, the status and the flag stay as they were.
C1_RefusedWhileBusy ==
  ev'.why = "busy" =>
    /\ ev'.op = "save" /\ ev'.ret = "false" /\ ev'.note = ""
    /\ saveInProgress
    /\ SavesInFlight # {}
    /\ UNCHANGED engine
\* C1: at most one save is in flight, and a request refused as busy changes nothing
C1_SingleFlight ==
  /\ [](Cardinality(SavesInFlight) <= 1)
  /\ [][C1_RefusedWhileBusy]_vars
\* a request was refused while the save of an earlier request was being written
C1_Witness ==
  /\ ev.why = "busy" /\ ev.ret = "false"
  /\ \E t \in Slots : SaveInFlight(t) /\ tasks[t].pc = "write"
  /\ saveStatus = SAVING

\* the step completes the remote write of the save of slot t: the save leaves
\* the await of the write, and the file its name resolved to now holds the
\* encoding of the snapshot the save took
WroteSnapshot(t) ==
  /\ tasks[t].kind = "save" /\ tasks[t].pc = "write" /\ tasks'[t].pc = "progOff"
  /\ tasks[t].name # NoFile
  /\ tasks[t].name \in DOMAIN files'
  /\ files'[tasks[t].name] = JsonRoundTrip(mapSetToObject(tasks[t].snap))

\* C2: a save sets the status to SAVED and returns true only after its own remote
\* write has succeeded: the step in which a save settles on the result true is
\* the completion of its write to the resolved file, with the encoded snapshot as
\* content, and is the step that sets SAVED; a step that moves the status to SAVED
\* is such a write or the read of a load; and a save that returns true had
\* settled on true.
C2_TrueOnlyAfterWrite ==
  /\ \A t \in Slots :
       (tasks[t].kind = "save" /\ tasks[t].ret # "true" /\ tasks'[t].ret = "true")
         => (WroteSnapshot(t) /\ saveStatus' = SAVED)
  /\ (saveStatus # SAVED /\ saveStatus' = SAVED)
       => \E t \in Slots : \/ WroteSnapshot(t)
                            \/ (tasks[t].kind \in {"load", "ready"} /\ tasks[t].pc = "read")
  /\ (ev'.op = "save" /\ ev'.ret = "true")
       => \E t \in Slots : /\ tasks[t].kind = "save" /\ tasks[t].pc = "progOff"
                            /\ tasks[t].ret = "true" /\ tasks'[t] = Idle
\* C2: every step of the engine obeys the rule above
C2_SavedOnlyAfterWrite == [][C2_TrueOnlyAfterWrite]_vars
\* a save of a state with a Map has returned true: the mapped file holds its
\* encoding and the status is SAVED
C2_Witness ==
  /\ ev.op = "save" /\ ev.ret = "true"
  /\ saveStatus = SAVED
  /\ store = State2
  /\ temp \in DOMAIN files /\ files[temp] = mapSetToObject(State2)

\* C3: when the remote write of a save has failed on every attempt, the save
\* returns false and, when it ends, the status is UNSAVED and the in-progress
\* flag is clear (the failure notice is shown by the step that gives up).
C3_FailedSaveEndsUnsaved ==
  (ev.op = "save" /\ ev.why = "mainFailed")
    => (ev.ret = "false" /\ saveStatus = UNSAVED /\ ~saveInProgress)

\* the host commits a mutation: the container state changes and no task moves
MutationStep == store' # store /\ tasks' = tasks

\* C4: right after setTeraReady has returned with a successful load and the
\* status SAVED, a mutation delivered by the adapter moves the status to UNSAVED;
\* the completion of the remote write of a save moves it to SAVED.
C4_FirstMutation ==
  (ev.op = "ready" /\ ev.ret = "ok" /\ ev.why = "ok" /\ saveStatus = SAVED /\ subs # {}
     /\ MutationStep)
    => saveStatus' = UNSAVED
\* C4: the first mutation after setTeraReady marks UNSAVED, a completed write SAVED
C4_ReadyMutateSave ==
  [][/\ C4_FirstMutation
     /\ \A t \in Slots : (WroteSnapshot(t) /\ tasks'[t].ret = "true") => saveStatus' = SAVED]_vars

\* C5: once mutation tracking is set up, a mutation delivered while the status is
\* not SAVING leaves the status UNSAVED, in every reachable state.
C5_TrackedMutation ==
  (subs # {} /\ saveStatus # SAVING /\ MutationStep) => saveStatus' = UNSAVED
\* C5: every step that delivers a mutation obeys the rule above
C5_MutationMarksUnsaved == [][C5_TrackedMutation]_vars

\* C6 (veto): a save request whose before-save hook returns anything but the
\* literal true is vetoed and never goes further (a request that starts a save or
\* is refused as busy had the hook return true); a vetoed request returns false
\* and changes nothing: no task is started, no remote call is made, the status
\* and the flag stay as they were; it shows a notice exactly when the hook
\* returned a non-empty string, and the notice is that string.
C6_VetoStep ==
  /\ ev'.why = "veto" =>
       /\ ev'.op = "save" /\ ev'.ret = "false"
       /\ ev'.hook # Bool(TRUE)
       /\ UNCHANGED engine
       /\ (ev'.note # "") = (Tag(ev'.hook) = "str" /\ ev'.hook[2] # "")
       /\ (ev'.note # "" => ev'.note = ev'.hook[2])
  /\ ev'.why \in {"start", "busy"} => ev'.hook = Bool(TRUE)
C7_TickStep ==
  /\ (ev'.op = "tick" /\ saveStatus = SAVED) => (ev'.why = "skipped" /\ UNCHANGED engine)
  /\ (ev'.op = "tick" /\ ev'.why = "start") => saveStatus # SAVED
  /\ ev'.op = "tick" => (timers # {} /\ cfg.interval > 0)
\* C7: no timer without an interval, and every tick obeys the rule above
C7_AutosaveNotRedundant ==
  /\ [](cfg.interval = 0 => timers = {})
  /\ [][C7_TickStep]_vars
\* a tick fired while the status was SAVED and was skipped
C7_Witness ==
  /\ ev.op = "tick" /\ ev.why = "skipped"
  /\ saveStatus = SAVED /\ timers # {}
  /\ \A t \in Slots : tasks[t] = Idle

\* the awaits at which a remote call for the file or the project map is pending
RemotePcs == {"create", "setContents", "setState", "write", "read"}

\* C8 (readiness): before setTeraReady has been called no operation has a remote
\* read or write pending, no mutation subscription is active and no autosave
\* timer runs.
C8_NothingBeforeReady ==
  ~teraReady =>
    /\ \A t \in Slots : tasks[t].pc \notin RemotePcs
    /\ subs = {}
    /\ timers = {}

\* the file a load reads is missing (404) or has an empty body
MissingOrEmpty(n) ==
  IF n \in DOMAIN files THEN files[n] = EmptyBody \/ Falsy(files[n]) ELSE TRUE
\* the load of slot t leaves its remote read for good
ReadSettles(t) ==
  /\ tasks[t].kind \in {"load", "ready"} /\ tasks[t].pc = "read"
  /\ tasks'[t].pc = "progOff"

\* C9: a load whose remote read reports file-not-found or an empty body settles
\* on the result true, leaves the container state unchanged, shows no failure
\* notice and sets the status to UNSAVED.
C9_MissingOrEmptyStep ==
  \A t \in Slots :
    (ReadSettles(t) /\ MissingOrEmpty(tasks[t].name))
      => /\ tasks'[t].ret = "true"
         /\ store' = store
         /\ ev'.note = ""
         /\ saveStatus' = UNSAVED
\* C9: every load that finds the file missing or empty obeys the rule above
C9_MissingOrEmptyFile == [][C9_MissingOrEmptyStep]_vars

\* C10: a load that fails for a reason other than not-found/empty (the read
\* failing on every attempt, or the decoding of the content failing) leaves the
\* container state untouched, and the status is UNSAVED when it returns.
C10_FailedLoadStep ==
  /\ \A t \in Slots :
       (ReadSettles(t) /\ tasks'[t].why \in {"mainFailed", "decode"}) => store' = store
  /\ (ev'.op = "load" /\ ev'.why \in {"mainFailed", "decode"}) => saveStatus' = UNSAVED
\* C10: every failed load obeys the rule above
C10_FailedLoad == [][C10_FailedLoadStep]_vars

\* C11: loadAndApplyStateFromFile resolves to true when the load was successful
\* and to false otherwise: a load whose remote read failed on every attempt (a
\* failure that is neither not-found nor empty) resolves to false, and a load
\* that resolves to true has read and applied the file.
C11_LoadResult ==
  ev.op = "load" =>
    /\ ev.why = "mainFailed" => ev.ret = "false"
    /\ ev.ret = "true" => ev.why \in {"ok", "notFound", "empty", "emptyBody"}

\* C12: no public operation ends with a thrown error or a rejected promise,
\* whatever the order of the calls and whichever collaborator call fails.
C12_NoOperationThrows == ev.ret # "throw"

\* C13: resolving the file of a key that has no mapping creates a file, writes
\* the container state into it and records key -> file; from then on every
\* resolution returns that file name and no file is created.
C13_ProvisionStep ==
  \A t \in Slots :
    (tasks[t].pc = "setState" /\ tasks'[t].pc \in {"write", "read"}) =>
      /\ temp' = tasks[t].name
      /\ tasks[t].name \in DOMAIN files
      /\ files[tasks[t].name] \in {JsonRoundTrip(v) : v \in StoreValues}
C13_MappedStep ==
  temp # NoFile =>
    /\ DOMAIN files' = DOMAIN files
    /\ \A t \in Slots :
         (tasks[t].pc = "progOn" /\ tasks'[t].pc # "progOn") => tasks'[t].name = temp
    /\ temp' = temp
C13_ProvisionOnFirstUse == [][C13_ProvisionStep /\ C13_MappedStep]_vars

\* C14: when no remote call fails, at most one remote file is ever created for
\* the key, under every interleaving of the operations.
C14_CreatedOnce == Cardinality(DOMAIN files) <= 1

\* C15: once the project map holds a file for the key, no operation of the
\* engine changes that entry.
C15_MappingStep == temp # NoFile => temp' = temp
C15_MappingAppendOnly == [][C15_MappingStep]_vars

\* the provisioning of task t ends in this step with the error of a call that
\* failed on its last retry
ProvisionThrows(t) ==
  /\ tasks[t].pc \in {"create", "setContents", "setState"}
  /\ tasks[t].sub > ProvisionRetries
  /\ \/ tasks'[t].attempt = tasks[t].attempt + 1
     \/ tasks'[t].pc = "progOff"

\* C16: when file creation, the initial write or the mapping write fails after
\* its retries, the resolution ends with the error instead of a file name, no
\* mapping is recorded, and the next resolution provisions again from the start
\* with a new file (unless another operation has mapped the key meanwhile).
C16_ProvisionFailureStep ==
  \A t \in Slots :
    ProvisionThrows(t) =>
      /\ temp' = temp
      /\ tasks'[t].pc \notin {"setContents", "setState"}
      /\ tasks'[t].pc \in {"write", "read"} =>
           (temp # NoFile /\ tasks'[t].name = temp)
      /\ (tasks'[t].pc = "progOff" /\ tasks[t].kind = "save") => tasks'[t].ret = "false"
      /\ (tasks'[t].pc # "progOff" /\ temp = NoFile) =>
           /\ tasks'[t].pc = "create"
           /\ tasks'[t].sub = 1
           /\ tasks'[t].name # tasks[t].name
           /\ tasks'[t].name \notin DOMAIN files
C16_ProvisionAllOrNothing == [][C16_ProvisionFailureStep]_vars
\* a file was created, a later step of its provisioning failed on every retry,
\* and the next attempt is creating another file while the key is still unmapped
C16_Witness ==
  \E t \in Slots :
    /\ tasks[t].pc = "create"
    /\ tasks[t].attempt = 2
    /\ temp = NoFile
    /\ NewName(t, 1) \in DOMAIN files

\* C17: promptForNewJsonFile updates the pointer and the in-memory state
\* together: when it returns, either the state was replaced by the decoded file
\* and the key maps to the selected file with status SAVED, or neither changed,
\* also when the mapping write fails.
C17_PromptStep ==
  \A t \in Slots :
    tasks[t].kind = "prompt" =>
      /\ (tasks[t].pc # "setPointer" /\ tasks'[t].pc = "setPointer") =>
           store' = ReplaceState(objectToMapSet(files[tasks[t].name]))
      /\ (tasks[t].pc = "setPointer" /\ tasks'[t].pc = "idle") =>
           /\ temp' = tasks[t].name
           /\ saveStatus' = SAVED
      /\ (tasks[t].pc # "setPointer" /\ tasks'[t].pc = "idle") =>
           /\ store' = store
           /\ temp' = temp
C17_PromptAtomic == [][C17_PromptStep]_vars

\* C18: when the user cancels the file selection the operation changes nothing:
\* state, mapping and status stay, no file content is read, no notice is shown
\* and no error is raised.
C18_CancelStep ==
  (ev'.op = "prompt" /\ ev'.why = "cancel") =>
    /\ store' = store
    /\ remote' = remote
    /\ status' = status
    /\ ev'.note = ""
    /\ ev'.ret = "ok"
    /\ \A t \in Slots : tasks'[t].pc # "getContents" \/ tasks[t].pc = "getContents"
C18_CancelIsNoOp == [][C18_CancelStep]_vars
C18_Witness == ev.op = "prompt" /\ ev.why = "cancel" /\ files[PickFile] = ValidDoc

\* C19: after destroy() has returned (and until setTeraReady is called again) no
\* autosave tick starts a save and no mutation changes the status, also when
\* destroy() ran while setTeraReady was awaiting the initial load or after
\* setTeraReady was called more than once.
C19_DestroyedStep ==
  (vueInstance /\ ~teraReady) =>
    /\ ~(ev'.op = "tick" /\ ev'.why = "start")
    /\ MutationStep => saveStatus' = saveStatus
C19_QuietAfterDestroy == [][C19_DestroyedStep]_vars

\* C20: setTeraReady is idempotent: once one call has completed, no step of
\* another call changes the container state or the status, and exactly one
\* autosave timer and one mutation subscription are active afterwards.
C20_SecondReadyStep ==
  \A t \in Slots :
    (tasks[t].kind = "ready" /\ tasks'[t] # tasks[t] /\ subs # {}) =>
      /\ store' = store
      /\ saveStatus' = saveStatus
      /\ Cardinality(subs') = 1
      /\ Cardinality(timers') = IF cfg.interval > 0 THEN 1 ELSE 0
C20_ReadyIdempotent == [][C20_SecondReadyStep]_vars

\* C21: for every value built from plain objects, arrays, Maps, Sets and Dates,
\* decoding the encoded value gives back the value, at any nesting depth, also
\* for a Map whose keys are not strings or whose key equals a tag marker.
C21_CodecRoundTrip == objectToMapSet(mapSetToObject(store)) = store

\* a save or a load of task t ends its try block with the status write SAVED
WritesSaved(t) ==
  /\ tasks'[t].pc = "progOff"
  /\ \/ tasks[t].pc = "write" /\ tasks'[t].ret = "true"
     \/ tasks[t].pc = "read" /\ tasks'[t].why = "ok"

\* C22: with every adapter the engine's own status write does not reach the
\* engine's mutation callback: when a save or a load ends by setting SAVED, and
\* the host has committed nothing, the status is SAVED and not UNSAVED.
C22_SelfWriteStep == \A t \in Slots : WritesSaved(t) => saveStatus' = SAVED
C22_SelfExclusion == [][C22_SelfWriteStep]_vars

\* C23: nothing the engine writes to a remote file, by a save or by the first
\* write of provisioning, holds the bookkeeping namespace of the Vuex or the
\* Pinia adapter.
C23_WriteStep ==
  \A n \in DOMAIN files' :
    (cfg.adapter # "plain" /\ (n \notin DOMAIN files \/ files'[n] # files[n])) =>
      (Tag(files'[n]) = "obj" => BookKey \notin DOMAIN files'[n][2])
C23_NoBookkeepingInFile == [][C23_WriteStep]_vars
\* a Pinia store whose saveStatus field is set has been saved
C23_Witness ==
  \E t \in Slots :
    /\ cfg.adapter = "pinia"
    /\ tasks[t].kind = "save"
    /\ tasks[t].pc = "progOff"
    /\ tasks[t].ret = "true"
    /\ BookKey \in DOMAIN Container[2]
    /\ PickFile \in DOMAIN files

\* C28: adapter.replaceState(newState) keeps the bookkeeping namespace with its
\* status value, also when newState itself has the bookkeeping key.
C28_ReplaceStep ==
  \A t \in Slots :
    (tasks[t].pc = "getContents" /\ tasks'[t].pc = "setPointer" /\ cfg.adapter # "plain") =>
      /\ mirror # "none" => mirror' # "none"
      /\ saveStatus' = saveStatus => mirror' = mirror
C28_ReplaceKeepsBookkeeping == [][C28_ReplaceStep]_vars

\* the provisioning of task t ends in this step with an error
ProvisionEnds(t) ==
  /\ tasks[t].pc \in {"create", "setContents", "setState"}
  /\ \/ tasks'[t].attempt = tasks[t].attempt + 1
     \/ tasks'[t].pc = "progOff"

\* C24 as stated: each provisioning sub-step is made at most 2 times, and when
\* it fails every time the error surfaces after exactly 2 calls.
C24_TwoAttemptsStep ==
  \A t \in Slots : ProvisionEnds(t) => tasks[t].sub = 2
C24_TwoAttempts == [][C24_TwoAttemptsStep]_vars

\* C24: each provisioning sub-step is made at most 3 times within one resolution
\* (one call and 2 retries), and when it fails every time the error surfaces
\* after exactly 3 calls.
C24_ThreeAttemptsStep ==
  \A t \in Slots :
    /\ tasks'[t].sub <= 3
    /\ ProvisionEnds(t) => tasks[t].sub = 3
C24_ThreeAttempts == [][C24_ThreeAttemptsStep]_vars
\* createProjectFile failed on each call of the first resolution and the second
\* resolution has started
C24_Witness ==
  \E t \in Slots :
    /\ tasks[t].pc = "create"
    /\ tasks[t].attempt = 2
    /\ "createProjectFile" \in env.faulty
    /\ files = NoFiles

\* C25: with loadImmediately false, setTeraReady makes no remote read and
\* resolves or provisions no file, leaves the container state and the remote
\* files as they are, and sets the status to UNSAVED; only
\* loadAndApplyStateFromFile reads the file.
C25_ReadyStep ==
  \A t \in Slots :
    (~cfg.loadImmediately /\ tasks[t].kind = "ready" /\ tasks'[t] # tasks[t]) =>
      /\ tasks'[t].pc \in {"initOff", "idle"}
      /\ store' = store
      /\ remote' = remote
      /\ tasks[t].pc = "initOn" /\ tasks'[t].pc = "initOff" => saveStatus' = UNSAVED
      /\ (tasks'[t].pc = "idle" /\ ev'.ret = "ok") => tasks[t].pc = "initOff"
C25_NoLoadAtReady == [][C25_ReadyStep]_vars
\* setTeraReady has returned with loadImmediately false, and the file that was
\* not read holds a state that differs from the container's
C25_Witness ==
  /\ ~cfg.loadImmediately
  /\ ev.op = "ready"
  /\ ev.ret = "ok"
  /\ saveStatus = UNSAVED
  /\ temp = OldFile
  /\ OldFile \in DOMAIN files
  /\ files[OldFile] = ValidDoc
  /\ store = State0

\* destroy() runs in this step
DestroyStep == teraReady /\ ~teraReady'

\* C26: destroy() makes no status transition and aborts nothing: the status and
\* the operations in flight are the same after it as before it, and a save or
\* load that was in flight still runs to its end.
C26_DestroyKeeps ==
  DestroyStep => /\ saveStatus' = saveStatus
                 /\ saveInProgress' = saveInProgress
                 /\ tasks' = tasks
C26_DestroyAbortsNothing ==
  /\ [][C26_DestroyKeeps]_vars
  /\ \A t \in Slots :
       (vueInstance /\ ~teraReady /\ tasks[t].pc # "idle") ~> (tasks[t].pc = "idle")
\* destroy() has run while a save was awaiting its remote write
C26_Witness ==
  \E t \in Slots :
    /\ vueInstance
    /\ ~teraReady
    /\ mirror = "none"
    /\ tasks[t].kind = "save"
    /\ tasks[t].pc = "write"

\* C27: every save or load that starts returns in the end, when every remote
\* call resolves or rejects in the end: the attempts of one operation are
\* bounded, also the provisioning retries inside the save and load retries.
C27_OperationsReturn ==
  \A t \in Slots : (tasks[t].pc # "idle") ~> (tasks[t].pc = "idle")
\* a load is in its last attempt after provisioning failed on every retry of the
\* earlier attempts
C27_Witness ==
  \E t \in Slots :
    /\ tasks[t].kind = "load"
    /\ tasks[t].attempt = LoadRetries + 1
    /\ tasks[t].pc = "create"
    /\ tasks[t].sub = ProvisionRetries + 1


\* C29: adapter setup() is idempotent: on a container that already carries the
\* bookkeeping namespace it changes nothing, the status the namespace shows
\* included, and throws nothing; a second setup() after the one of a
\* construction that returned leaves the container as the first left it
C29_SetupStep ==
  ev'.op = "create" =>
    /\ (mirror # "none" /\ ev'.ret = "throw") => ev'.why # PiniaSetupError
    /\ ev'.ret = "ok" =>
         /\ mirror # "none" => mirror' = mirror
         /\ Setup(cfg'.adapter, mirror') = [mirror |-> mirror', error |-> ""]
C29_SetupIdempotent == [][C29_SetupStep]_vars
\* a Vuex store whose module showed "Saving..." when the engine was constructed
C29_Witness ==
  /\ ev.op = "create"
  /\ ev.ret = "ok"
  /\ cfg.adapter = "vuex"
  /\ mirror = SAVING

\* C30: createTeraSync selects one adapter by probing for the four functions of
\* the host's own store, then the Pinia shape, then the Vuex shape, and the
\* engine keeps it; with a store of no shape or an invalid configuration it
\* throws and the container is as before: no module registered, no subscription
C30_Invalid ==
  LET given == env.given
  IN \/ /\ "autoSaveIntervalMinutes" \in DOMAIN given
        /\ given["autoSaveIntervalMinutes"] \notin {Num(0), Num(DefaultAutoSaveMinutes)}
     \/ /\ "loadImmediately" \in DOMAIN given
        /\ given["loadImmediately"] \notin {Bool(TRUE), Bool(FALSE)}
C30_NoShape ==
  /\ ~(PlainShape \subseteq env.shape)
  /\ ~(PiniaShape \subseteq env.shape)
  /\ ~(VuexShape \subseteq env.shape)
C30_CreateStep ==
  /\ ev'.op = "create" =>
       /\ (ev'.ret = "ok" /\ PlainShape \subseteq env.shape) => cfg'.adapter = "plain"
       /\ (ev'.ret = "ok" /\ ~(PlainShape \subseteq env.shape)
             /\ PiniaShape \subseteq env.shape) => cfg'.adapter = "pinia"
       /\ (ev'.ret = "ok" /\ ~(PlainShape \subseteq env.shape)
             /\ ~(PiniaShape \subseteq env.shape)) => cfg'.adapter = "vuex"
       /\ (C30_NoShape \/ C30_Invalid) =>
            /\ ev'.ret = "throw"
            /\ UNCHANGED <<cfg, store, mirror, subs, timers, hotkeys>>
  /\ Built => cfg'.adapter = cfg.adapter
C30_OneAdapterOrError == [][C30_CreateStep]_vars
\* a store of no known shape was refused and carries no module
C30_Witness ==
  /\ ev.op = "create"
  /\ ev.ret = "throw"
  /\ ev.why = NoShapeError
  /\ ~Built
  /\ mirror = "none"
  /\ subs = {}


\* C33: every content the engine writes to a remote file, the first content of a
\* file it has just created included, is the Codec encoding (mapSetToObject) of
\* a state of the container: of the snapshot of the save, or of the state the
\* container holds or can be given by the host
C33_Snapshots ==
  StoreValues \cup {GetState} \cup {tasks[t].snap : t \in {x \in Slots : tasks[x].kind = "save"}}
C33_ContentStep ==
  \A n \in DOMAIN files' :
    (n \notin DOMAIN files \/ files'[n] # files[n]) =>
      \/ files'[n] = EmptyBody
      \/ \E v \in C33_Snapshots : files'[n] = JsonRoundTrip(mapSetToObject(v))
C33_WritesAreEncoded == [][C33_ContentStep]_vars


C35_MirrorFollowsStatus ==
  (cfg.adapter \in {"vuex", "pinia"} /\ mirror # "none") => mirror = saveStatus


\* C36: a save writes its snapshot into the file the key mapped to when the
\* snapshot was taken, on every attempt: not into a file that
\* promptForNewJsonFile has pointed the key to since
C36_WriteStep ==
  \A t \in Slots :
    (tasks[t].kind = "save" /\ tasks[t].pc = "write" /\ tasks'[t].pc = "progOff"
       /\ tasks'[t].ret = "true" /\ tasks[t].at # NoFile)
      => tasks[t].name = tasks[t].at
C36_WritesOwnFile == [][C36_WriteStep]_vars


\* C38: getFileMetadata is read-only: no step of it changes the save status, the
\* container state, the mapping of the key or the remote files, and it returns
\* null when the key maps to no file
C38_MetadataStep ==
  /\ \A t \in Slots :
       ((tasks[t].kind = "meta" \/ tasks'[t].kind = "meta") /\ tasks'[t] # tasks[t])
         => UNCHANGED <<saveStatus, mirror, store, temp, files>>
  /\ (ev'.op = "metadata" /\ ev'.ret = "metadata")
       => (temp # NoFile /\ \A t \in Slots : tasks[t].kind = "meta" => tasks[t].sub = 0)
C38_MetadataReadOnly == [][C38_MetadataStep]_vars


C37_VuexAutosaveSaves ==
  (cfg.adapter = "vuex" /\ timers # {} /\ saveStatus = UNSAVED /\ nOps < env.ops)
    ~> (saveStatus = SAVED)


\* C31: the progress indicator is balanced: a save or load that has turned the
\* indicator on turns it off before it returns, on every path, so that the
\* indicator is off whenever no operation of the engine is in flight
C31_IndicatorBalanced ==
  (\A t \in Slots : tasks[t].pc = "idle") => ~progress
\* the same on a host whose uiProgress never rejects
C31_BalancedWhenProgressWorks ==
  ("uiProgress" \notin env.faulty /\ \A t \in Slots : tasks[t].pc = "idle") => ~progress


\* C32: no mutation is lost from dirty tracking: while the status is SAVED and no
\* operation is in flight, the container holds the snapshot most recently
\* written by a save or applied by a load, which on a reliable host with one
\* mapped file is the decoded content of that file
C32_SavedMeansClean ==
  (/\ \A t \in Slots : tasks[t].pc = "idle"
   /\ nOps > 0
   /\ saveStatus = SAVED)
    => (temp \in DOMAIN files /\ objectToMapSet(files[temp]) = GetState)

====
